---- MODULE Spec2Model ----
(***************************************************************************)
(* Model of bigml/dataset.py: the local Dataset node, its construction     *)
(* over the origin chain, the row builder (_input_array), the              *)
(* transformation engine (_transform), the public transform and the        *)
(* sampling helpers.                                                       *)
(*                                                                         *)
(* Python values are modelled as follows.                                  *)
(*   None                -> the string "None"                              *)
(*   an optional object  -> << >> when None / unset, << v >> when set       *)
(*   a dict              -> a sequence of << key, value >> pairs with      *)
(*                          distinct keys, in insertion order              *)
(*   a list              -> a sequence                                     *)
(*   raw cell values     -> "i1","i2" (the numbers 1, 2), "s1","s2" (the   *)
(*                          strings "1","2"), "sx" (the string "x")        *)
(***************************************************************************)
EXTENDS Integers, Sequences, FiniteSets, TLC

VARIABLES
    nodes,      \* the heap of Dataset objects, in allocation order
    cstack,     \* the stack of __init__ activations
    root,       \* index of the node the client holds, 0 while there is none
    conState,   \* "idle" | "running" | "done" | "raised" (the constructor call)
    call,       \* per caller: the activation of transform
    apiLog,     \* the calls received by the retrieval collaborator
    sampleRes,  \* outcome of the last get_sample / get_inputs_sample call
    brSelf,     \* row-builder harness: the node _input_array runs on
    brRecord,   \* row-builder harness: the input record
    brOut       \* row-builder harness: the outcome of _input_array

vars == << nodes, cstack, root, conState, call, apiLog, sampleRes,
           brSelf, brRecord, brOut >>

(***************************************************************************)
(* Bounds                                                                  *)
(***************************************************************************)
MaxKeys == 2        \* keys per input record (row-builder harness)
MaxRecs == 2        \* records per transform call
MaxResRows == 2     \* result rows an apply may return
MaxDepth == 3       \* nested __init__ activations
MaxApiLog == 4      \* retrieval calls recorded

None == "None"

(***************************************************************************)
(* Python dict, as a sequence of << key, value >> pairs                    *)
(***************************************************************************)
DictKeys(d) == { d[i][1] : i \in 1..Len(d) }

DictHas(d, k) == k \in DictKeys(d)

DictGet(d, k) == d[CHOOSE i \in 1..Len(d) : d[i][1] = k][2]

\* mutant: an existing key keeps its value
DictUpdate_keep_first(d, k, v) ==
    IF DictHas(d, k) THEN d ELSE Append(d, << k, v >>)

\* dict.update({k: v}): an existing key keeps its place and takes the new
\* value, a new key is appended
DictUpdate(d, k, v) ==
    IF DictHas(d, k)
    THEN [i \in 1..Len(d) |-> IF d[i][1] = k THEN << k, v >> ELSE d[i]]
    ELSE Append(d, << k, v >>)

\* dict(zip(headers, row)): zip stops at the shorter of the two, and a
\* repeated header overwrites the value stored under it
RECURSIVE ZipDictFrom(_, _, _, _)
ZipDictFrom(headers, row, i, acc) ==
    IF i > Len(headers) \/ i > Len(row) THEN acc
    ELSE ZipDictFrom(headers, row, i + 1, DictUpdate(acc, headers[i], row[i]))

ZipDict(headers, row) == ZipDictFrom(headers, row, 1, << >>)

(***************************************************************************)
(* The field catalog (bigml.fields.Fields) and bigml.util.cast             *)
(***************************************************************************)
\* the 'fields' dict of the payloads: field id -> descriptor
Schemas ==
    [ sA |-> [ f0 |-> [name |-> "x",  column_number |-> 0, optype |-> "numeric"],
               f1 |-> [name |-> "y",  column_number |-> 1, optype |-> "categorical"] ],
      sB |-> [ f0 |-> [name |-> "x",  column_number |-> 1, optype |-> "categorical"],
               f1 |-> [name |-> "y",  column_number |-> 0, optype |-> "numeric"] ],
      sC |-> [ f0 |-> [name |-> "f1", column_number |-> 1, optype |-> "numeric"],
               f1 |-> [name |-> "x",  column_number |-> 0, optype |-> "numeric"] ],
      sD |-> [ f0 |-> [name |-> "x",  column_number |-> 2, optype |-> "numeric"],
               f1 |-> [name |-> "y",  column_number |-> 0, optype |-> "categorical"] ] ]

SchemaNames == DOMAIN Schemas

\* Fields.fields
FieldsOf(s) == Schemas[s]

\* Fields.fields_by_name: name -> id
FieldNames(s) == { Schemas[s][f].name : f \in DOMAIN Schemas[s] }

FieldsByName(s, n) == CHOOSE f \in DOMAIN Schemas[s] : Schemas[s][f].name = n

\* Fields.fields_by_column_number: column -> id
FieldsByColumnNumber(s, c) ==
    CHOOSE f \in DOMAIN Schemas[s] : Schemas[s][f].column_number = c

RECURSIVE SortedSeq(_)
SortedSeq(S) ==
    IF S = {} THEN << >>
    ELSE LET m == CHOOSE x \in S : \A y \in S : x <= y
         IN  << m >> \o SortedSeq(S \ {m})

\* Fields.fields_columns: the column numbers, ascending
FieldsColumns(s) ==
    SortedSeq({ Schemas[s][f].column_number : f \in DOMAIN Schemas[s] })

RawValues == {"i1", "s1", "sx"}

IsStr(v) == v \in {"s1", "s2", "sx"}

\* float("1") = 1, float("x") raises ValueError
ParseNum(v) == CASE v = "s1" -> "i1" [] v = "s2" -> "i2" [] OTHER -> "ValueError"

\* str(1) = "1"
ToStr(v) == CASE v = "i1" -> "s1" [] v = "i2" -> "s2" [] OTHER -> v

\* the value cast stores for one entry, or "ValueError"
CastValue(descriptor, v) ==
    IF descriptor.optype = "numeric" /\ IsStr(v) THEN ParseNum(v)
    ELSE IF descriptor.optype # "numeric" /\ ~IsStr(v) THEN ToStr(v)
    ELSE v

\* cast(input_data, fields): in-place normalisation of the entries whose
\* key is a field id; entries under other keys are left alone
Cast(input_data, fields) ==
    LET conv(i) == IF input_data[i][1] \in DOMAIN fields
                   THEN CastValue(fields[input_data[i][1]], input_data[i][2])
                   ELSE input_data[i][2]
    IN  IF \E i \in 1..Len(input_data) : conv(i) = "ValueError"
        THEN [err |-> "ValueError", data |-> << >>]
        ELSE [err |-> "none",
              data |-> [i \in 1..Len(input_data) |-> << input_data[i][1], conv(i) >>]]

(***************************************************************************)
(* sorted_headers                                                          *)
(***************************************************************************)
\* mutant: the headers listed in field-id order, not in column order
sorted_headers_by_id(s) ==
    [ names |-> << FieldsOf(s)["f0"].name, FieldsOf(s)["f1"].name >>,
      ids   |-> << "f0", "f1" >> ]

sorted_headers(s) ==
    LET cols == FieldsColumns(s)
    IN  [ names |-> [i \in 1..Len(cols) |->
                        FieldsOf(s)[FieldsByColumnNumber(s, cols[i])].name],
          ids   |-> [i \in 1..Len(cols) |-> FieldsByColumnNumber(s, cols[i])] ]

(***************************************************************************)
(* The payloads the retrieval collaborator serves, by dataset id           *)
(***************************************************************************)
Store ==
    [ ds_root   |-> [fields |-> "sA", finished |-> TRUE, origin_dataset |-> None,
                     output_fields |-> << >>],
      ds_rootgen |-> [fields |-> "sA", finished |-> TRUE, origin_dataset |-> None,
                     output_fields |-> << [generator |-> "e1", names |-> << "a" >>] >>],
      ds_child  |-> [fields |-> "sB", finished |-> TRUE, origin_dataset |-> "ds_root",
                     output_fields |-> << [generator |-> "e1", names |-> << "a" >>],
                                          [generator |-> "e2", names |-> << "b", "c" >>] >>],
      ds_empty  |-> [fields |-> "sA", finished |-> TRUE, origin_dataset |-> "ds_root",
                     output_fields |-> << >>],
      ds_unfin  |-> [fields |-> "sA", finished |-> FALSE, origin_dataset |-> "ds_root",
                     output_fields |-> << [generator |-> "e1", names |-> << "a" >>] >>],
      ds_nofields |-> [fields |-> None, finished |-> TRUE, origin_dataset |-> "ds_root",
                     output_fields |-> << [generator |-> "e1", names |-> << "a" >>] >>],
      ds_orphan |-> [fields |-> "sA", finished |-> TRUE, origin_dataset |-> "ds_unfin",
                     output_fields |-> << [generator |-> "e1", names |-> << "a" >>] >>],
      ds_grand  |-> [fields |-> "sC", finished |-> TRUE, origin_dataset |-> "ds_child",
                     output_fields |-> << [generator |-> "e3", names |-> << "d" >>] >>],
      ds_dup    |-> [fields |-> "sA", finished |-> TRUE, origin_dataset |-> "ds_root",
                     output_fields |-> << [generator |-> "e4", names |-> << "a", "a" >>] >>],
      ds_loop   |-> [fields |-> "sA", finished |-> TRUE, origin_dataset |-> "ds_loop",
                     output_fields |-> << [generator |-> "e1", names |-> << "a" >>] >>] ]

DatasetIds == DOMAIN Store

(***************************************************************************)
(* get_new_fields                                                          *)
(***************************************************************************)
\* mutant: the entries are collected last to first
get_new_fields_reversed(output_fields) ==
    [i \in 1..Len(output_fields) |->
        [field |-> output_fields[Len(output_fields) + 1 - i].generator,
         names |-> output_fields[Len(output_fields) + 1 - i].names]]

get_new_fields(output_fields) ==
    [i \in 1..Len(output_fields) |->
        [field |-> output_fields[i].generator, names |-> output_fields[i].names]]

(***************************************************************************)
(* Dataset.__init__ and Dataset.add_transformations                        *)
(***************************************************************************)
\* the attributes assigned before the payload is looked at; the header
\* lists are attributes that do not exist yet
BlankNode ==
    [ resource_id |-> None, origin_dataset |-> 0, in_fields |-> None,
      out_fields |-> None, transformations |-> << >>,
      out_header_names |-> << >>, in_header_names |-> << >>,
      in_header_ids |-> << >> ]

\* the payload carries a 'fields' dict and its status code is FINISHED
IsFinished(payload) == payload.fields # None /\ payload.finished

\* mutant: the schema is read whatever the status code
InitNode_any_status(id) ==
    LET payload == Store[id]
        base == [BlankNode EXCEPT !.resource_id = id]
    IN  IF payload.fields # None
        THEN [base EXCEPT !.out_fields = payload.fields,
                          !.out_header_names = << sorted_headers(payload.fields).names >>]
        ELSE base

\* mutant: the generators are stored before the origin is looked at
InitNode_keeps_generators(id) ==
    LET payload == Store[id]
        base == [BlankNode EXCEPT !.resource_id = id]
    IN  IF IsFinished(payload)
        THEN [base EXCEPT !.out_fields = payload.fields,
                          !.out_header_names = << sorted_headers(payload.fields).names >>,
                          !.transformations =
                              IF payload.output_fields # << >>
                              THEN << get_new_fields(payload.output_fields) >> ELSE @]
        ELSE base

\* __init__ up to the call of add_transformations
InitNode(id) ==
    LET payload == Store[id]
        base == [BlankNode EXCEPT !.resource_id = id]
    IN  IF IsFinished(payload)
        THEN [base EXCEPT !.out_fields = payload.fields,
                          !.out_header_names = << sorted_headers(payload.fields).names >>]
        ELSE base

\* mutant: the origin is resolved whatever the status code
NeedsOrigin_any_status(id) == Store[id].fields # None /\ Store[id].origin_dataset # None

\* whether __init__ reaches add_transformations
NeedsOrigin(id) == IsFinished(Store[id]) /\ Store[id].origin_dataset # None

\* mutant: the input schema is taken from the node itself
AddTransformations_own_schema(node, originIdx, originNode, new_fields) ==
    [node EXCEPT !.origin_dataset = originIdx,
                 !.in_fields = node.out_fields,
                 !.transformations = IF new_fields # << >> THEN << new_fields >>
                                     ELSE node.transformations]

\* add_transformations once the origin node is built
AddTransformations(node, originIdx, originNode, new_fields) ==
    [node EXCEPT !.origin_dataset = originIdx,
                 !.in_fields = originNode.out_fields,
                 !.transformations = IF new_fields # << >> THEN << new_fields >>
                                     ELSE node.transformations]

\* the input header lists, computed once add_transformations has returned
SetInHeaders(node) ==
    [node EXCEPT !.in_header_names = << sorted_headers(node.in_fields).names >>,
                 !.in_header_ids = << sorted_headers(node.in_fields).ids >>]

(***************************************************************************)
(* Dataset._input_array                                                    *)
(***************************************************************************)
\* the key an input key is stored under: itself when it is a field id,
\* otherwise fields_by_name.get(key, key)
\* mutant: a key that is neither id nor name falls back to the first field
ResolveKey_fallback(s, key) ==
    IF key \in DOMAIN FieldsOf(s) THEN key
    ELSE IF key \in FieldNames(s) THEN FieldsByName(s, key)
    ELSE "f0"

\* mutant: the display name is tried before the id
ResolveKey_name_first(s, key) ==
    IF key \in FieldNames(s) THEN FieldsByName(s, key)
    ELSE key

ResolveKey(s, key) ==
    IF key \in DOMAIN FieldsOf(s) THEN key
    ELSE IF key \in FieldNames(s) THEN FieldsByName(s, key)
    ELSE key

\* mutant: a key already in the mapping keeps its first value
RECURSIVE NewInputDataFrom_first_wins(_, _, _, _)
NewInputDataFrom_first_wins(s, input_data, i, acc) ==
    IF i > Len(input_data) THEN acc
    ELSE NewInputDataFrom_first_wins(s, input_data, i + 1,
            IF DictHas(acc, ResolveKey(s, input_data[i][1])) THEN acc
            ELSE DictUpdate(acc, ResolveKey(s, input_data[i][1]), input_data[i][2]))

RECURSIVE NewInputDataFrom(_, _, _, _)
NewInputDataFrom(s, input_data, i, acc) ==
    IF i > Len(input_data) THEN acc
    ELSE NewInputDataFrom(s, input_data, i + 1,
            DictUpdate(acc, ResolveKey(s, input_data[i][1]), input_data[i][2]))

NewInputData(s, input_data) == NewInputDataFrom(s, input_data, 1, << >>)

\* the row read off the casted mapping, one position per input header id
RowOf(header_ids, data) ==
    [i \in 1..Len(header_ids) |->
        IF ~DictHas(data, header_ids[i]) THEN None ELSE DictGet(data, header_ids[i])]

\* err: "none" or the exception raised; cast_arg: the mapping handed to cast
InputArray(self, input_data) ==
    IF Len(input_data) > 0 /\ self.in_header_ids = << >>
    THEN [err |-> "AttributeError", row |-> << >>, cast_arg |-> << >>]
    ELSE IF self.in_fields = None
    THEN [err |-> "AttributeError", row |-> << >>, cast_arg |-> << >>]
    ELSE LET new_input_data == NewInputData(self.in_fields, input_data)
             casted == Cast(new_input_data, FieldsOf(self.in_fields))
         IN  IF casted.err # "none"
             THEN [err |-> casted.err, row |-> << >>, cast_arg |-> new_input_data]
             ELSE [err |-> "none",
                   row |-> RowOf(self.in_header_ids[1], casted.data),
                   cast_arg |-> new_input_data]

(***************************************************************************)
(* Row-builder harness: _input_array applied to one record on a node       *)
(* derived from an origin with a given schema                              *)
(***************************************************************************)
InputKeys == {"f0", "f1", "x", "y", "zz"}

RecordsOfLen(n) ==
    { r \in [1..n -> InputKeys \X RawValues] :
        \A i, j \in 1..n : i # j => r[i][1] # r[j][1] }

InputRecords == UNION { RecordsOfLen(n) : n \in 0..MaxKeys }

\* a finished node whose origin is a finished dataset with schema s
DerivedNode(s) ==
    SetInHeaders(AddTransformations(
        [BlankNode EXCEPT !.resource_id = "derived", !.out_fields = s,
                          !.out_header_names = << sorted_headers(s).names >>],
        2, [BlankNode EXCEPT !.out_fields = s], << >>))

Pending == [state |-> "pending", err |-> "none", row |-> << >>, cast_arg |-> << >>]

Idle == [state |-> "idle", err |-> "none", row |-> << >>, cast_arg |-> << >>]

BuildRow ==
    /\ brOut.state = "pending"
    /\ brOut' = [state |-> "done"] @@ InputArray(brSelf, brRecord)
    /\ UNCHANGED << nodes, cstack, root, conState, call, apiLog, sampleRes,
                    brSelf, brRecord >>

(***************************************************************************)
(* Activation records of transform, one per caller; applied holds the      *)
(* matrices apply returned so far, ilog the interpreter calls made         *)
(***************************************************************************)
Callers == {"c1", "c2"}

IdleCall ==
    [ pc |-> "idle", input_data_list |-> << >>, rows |-> << >>,
      out_headers |-> << >>, new_input_arrays |-> << >>, g |-> 0,
      applied |-> << >>, ilog |-> << >>, err |-> "none", result |-> << >> ]

NoSample == [op |-> "none", outcome |-> "none", before |-> << >>]

(***************************************************************************)
(* Specification of the row-builder harness                                *)
(***************************************************************************)
InitRow ==
    /\ nodes = << >>
    /\ cstack = << >>
    /\ root = 0
    /\ conState = "idle"
    /\ call = [c \in Callers |-> IdleCall]
    /\ apiLog = << >>
    /\ sampleRes = NoSample
    /\ brSelf \in { DerivedNode(s) : s \in SchemaNames }
    /\ brRecord \in InputRecords
    /\ brOut = Pending

NextRow == BuildRow

SpecRow == InitRow /\ [][NextRow]_vars

(***************************************************************************)
(* Properties of the row builder                                           *)
(***************************************************************************)
brSchema == brSelf.in_fields

Returned == brOut.state = "done" /\ brOut.err = "none"

\* the column positions of schema s are a permutation of 0..n-1
IsPermutation(s) ==
    { Schemas[s][f].column_number : f \in DOMAIN Schemas[s] }
        = 0..(Cardinality(DOMAIN Schemas[s]) - 1)

\* record key k names field f of schema s: as its id, or, when k is no id
\* at all, as its display name
Names(s, k, f) ==
    \/ k = f
    \/ k \notin DOMAIN Schemas[s] /\ Schemas[s][f].name = k

\* the casted values record r supplies for field f
Supplied(s, r, f) ==
    { CastValue(Schemas[s][f], r[j][2]) : j \in { i \in 1..Len(r) : Names(s, r[i][1], f) } }

\* position of field f in a row: its rank among the declared columns
Pos(s, f) ==
    1 + Cardinality({ g \in DOMAIN Schemas[s] :
                        Schemas[s][g].column_number < Schemas[s][f].column_number })

\* C5: over a schema whose columns are a permutation of 0..n-1, a returned
\* row has n positions, and position i holds a casted value the record
\* supplies for the field declared at column i, or None when it supplies none
C5_RowFollowsColumns ==
    (Returned /\ IsPermutation(brSchema)) =>
        /\ Len(brOut.row) = Cardinality(DOMAIN Schemas[brSchema])
        /\ \A f \in DOMAIN Schemas[brSchema] :
            LET i == Schemas[brSchema][f].column_number + 1
                vals == Supplied(brSchema, brRecord, f)
            IN  IF vals = {} THEN brOut.row[i] = None ELSE brOut.row[i] \in vals

\* a row over the column-permuted schema sB: y (column 0) supplied by name
\* and casted, x (column 1) missing
C5_Witness ==
    /\ Returned
    /\ brSchema = "sB"
    /\ brRecord = << << "y", "s1" >> >>
    /\ brOut.row = << "i1", None >>

\* key k matches neither a field id nor a display name of schema s
Unknown(s, k) == k \notin DOMAIN Schemas[s] /\ k \notin FieldNames(s)

\* record r without its j-th entry
Without(r, j) == [i \in 1..(Len(r) - 1) |-> IF i < j THEN r[i] ELSE r[i + 1]]

\* C6: an entry under an unknown key changes nothing: the outcome (row or
\* error) is the one of the record without that entry, so the key itself
\* never raises and never reaches a column; the key is still in the
\* mapping handed to cast, with its value
C6_UnknownKeyIgnored ==
    brOut.state = "done" =>
        \A j \in 1..Len(brRecord) :
            Unknown(brSchema, brRecord[j][1]) =>
                LET rest == InputArray(brSelf, Without(brRecord, j))
                IN  /\ brOut.err = rest.err
                    /\ brOut.row = rest.row
                    /\ (Len(brRecord) = 1 => brOut.err = "none")
                    /\ brOut.cast_arg # << >>
                    /\ DictHas(brOut.cast_arg, brRecord[j][1])
                    /\ DictGet(brOut.cast_arg, brRecord[j][1]) = brRecord[j][2]

\* a record with the unknown key zz beside a known one has been built
C6_Witness ==
    /\ Returned
    /\ brSchema = "sA"
    /\ brRecord = << << "zz", "sx" >>, << "x", "s1" >> >>
    /\ brOut.row = << "i1", None >>

\* the field record key k is resolved to: the field with that id, else the
\* field with that display name
Target(s, k) ==
    IF k \in DOMAIN Schemas[s] THEN k
    ELSE CHOOSE f \in DOMAIN Schemas[s] : Schemas[s][f].name = k

\* C7: a key is resolved as a field id first and as a display name only
\* when it is no id: its casted value lands in the column of the field it
\* resolves to (when no other entry resolves to that field), and a field
\* no entry resolves to stays None, also when a key equals its display name
C7_IdBeforeName ==
    Returned =>
        /\ \A j \in 1..Len(brRecord) :
            LET k == brRecord[j][1]
            IN  (~Unknown(brSchema, k)
                 /\ \A h \in 1..Len(brRecord) :
                        (h # j /\ ~Unknown(brSchema, brRecord[h][1]))
                            => Target(brSchema, brRecord[h][1]) # Target(brSchema, k))
                => brOut.row[Pos(brSchema, Target(brSchema, k))]
                       = CastValue(Schemas[brSchema][Target(brSchema, k)], brRecord[j][2])
        /\ \A f \in DOMAIN Schemas[brSchema] :
            (\A j \in 1..Len(brRecord) :
                Unknown(brSchema, brRecord[j][1]) \/ Target(brSchema, brRecord[j][1]) # f)
                => brOut.row[Pos(brSchema, f)] = None

\* over sC the key "f1" is the id of field f1 (column 0) and the display
\* name of field f0 (column 1): the value went to f1's column only
C7_Witness ==
    /\ Returned
    /\ brSchema = "sC"
    /\ brRecord = << << "f1", "s1" >> >>
    /\ brOut.row = << "i1", None >>

(***************************************************************************)
(* Construction: Dataset(d), one action per stretch of __init__ between    *)
(* the recursive constructor calls                                         *)
(***************************************************************************)
Top == cstack[Len(cstack)]

\* the activation on top of the stack returns to its caller
PopFrame ==
    /\ cstack' = SubSeq(cstack, 1, Len(cstack) - 1)
    /\ IF Len(cstack) = 1
       THEN conState' = "done" /\ root' = Top.self
       ELSE UNCHANGED << conState, root >>

\* the client calls Dataset(d) on an already fetched payload
Construct(d) ==
    /\ conState = "idle"
    /\ conState' = "running"
    /\ nodes' = << BlankNode >>
    /\ cstack' = << [self |-> 1, pc |-> "start", arg |-> d] >>
    /\ UNCHANGED << root, call, apiLog, sampleRes, brSelf, brRecord, brOut >>

\* mutant: the origin payload is retrieved twice before it is constructed
InitBody_refetch ==
    /\ conState = "running"
    /\ Top.pc = "start"
    /\ IF NeedsOrigin(Top.arg)
       THEN /\ Len(cstack) < MaxDepth
            /\ apiLog' = apiLog \o << << "get_dataset", Store[Top.arg].origin_dataset >>,
                                      << "get_dataset", Store[Top.arg].origin_dataset >> >>
            /\ nodes' = Append([nodes EXCEPT ![Top.self] = InitNode(Top.arg)], BlankNode)
            /\ cstack' = Append([cstack EXCEPT ![Len(cstack)].pc = "wait"],
                                [self |-> Len(nodes) + 1, pc |-> "start",
                                 arg |-> Store[Top.arg].origin_dataset])
            /\ UNCHANGED << conState, root >>
       ELSE /\ nodes' = [nodes EXCEPT ![Top.self] = InitNode(Top.arg)]
            /\ PopFrame
            /\ UNCHANGED apiLog
    /\ UNCHANGED << call, sampleRes, brSelf, brRecord, brOut >>

\* __init__ from its first line to its return or, for a finished payload
\* with an origin, to the constructor call inside add_transformations
InitBody ==
    /\ conState = "running"
    /\ Top.pc = "start"
    /\ IF NeedsOrigin(Top.arg)
       THEN /\ Len(cstack) < MaxDepth
            /\ apiLog' = Append(apiLog, << "get_dataset", Store[Top.arg].origin_dataset >>)
            /\ nodes' = Append([nodes EXCEPT ![Top.self] = InitNode(Top.arg)], BlankNode)
            /\ cstack' = Append([cstack EXCEPT ![Len(cstack)].pc = "wait"],
                                [self |-> Len(nodes) + 1, pc |-> "start",
                                 arg |-> Store[Top.arg].origin_dataset])
            /\ UNCHANGED << conState, root >>
       ELSE /\ nodes' = [nodes EXCEPT ![Top.self] = InitNode(Top.arg)]
            /\ PopFrame
            /\ UNCHANGED apiLog
    /\ UNCHANGED << call, sampleRes, brSelf, brRecord, brOut >>

\* mutant: with no input schema the header lists are left out and the
\* constructor returns
AfterOrigin_tolerant ==
    /\ conState = "running"
    /\ Top.pc = "wait"
    /\ LET me == Top.self
           added == AddTransformations(nodes[me], me + 1, nodes[me + 1],
                        get_new_fields(Store[Top.arg].output_fields))
       IN  /\ nodes' = [nodes EXCEPT ![me] = IF added.in_fields = None THEN added
                                             ELSE SetInHeaders(added)]
           /\ PopFrame
    /\ UNCHANGED << call, apiLog, sampleRes, brSelf, brRecord, brOut >>

\* the origin's constructor has returned: the rest of add_transformations,
\* then the input header lists; sorted_headers(None) raises AttributeError,
\* which no activation catches
AfterOrigin ==
    /\ conState = "running"
    /\ Top.pc = "wait"
    /\ LET me == Top.self
           added == AddTransformations(nodes[me], me + 1, nodes[me + 1],
                        get_new_fields(Store[Top.arg].output_fields))
       IN  IF added.in_fields = None
           THEN /\ nodes' = [nodes EXCEPT ![me] = added]
                /\ cstack' = << >>
                /\ conState' = "raised"
                /\ UNCHANGED root
           ELSE /\ nodes' = [nodes EXCEPT ![me] = SetInHeaders(added)]
                /\ PopFrame
    /\ UNCHANGED << call, apiLog, sampleRes, brSelf, brRecord, brOut >>

(***************************************************************************)
(* Dataset.get_sample and Dataset.get_inputs_sample                        *)
(***************************************************************************)
\* the retrieval calls get_sample makes on node n when api.ok answers ok
SampleCalls(n, ok) ==
    << << "create_sample", nodes[n].resource_id >> >>
        \o (IF ok THEN << << "get_sample", nodes[n].resource_id >> >> ELSE << >>)

GetSample ==
    /\ conState = "done"
    /\ Len(apiLog) + 2 <= MaxApiLog
    /\ \E ok \in BOOLEAN :
        /\ apiLog' = apiLog \o SampleCalls(root, ok)
        /\ sampleRes' = [op |-> "get_sample",
                         outcome |-> IF ok THEN "rows" ELSE "empty",
                         before |-> apiLog]
    /\ UNCHANGED << nodes, cstack, root, conState, call, brSelf, brRecord, brOut >>

\* mutant: a node without origin samples itself
GetInputsSample_unguarded ==
    /\ conState = "done"
    /\ Len(apiLog) + 2 <= MaxApiLog
    /\ LET target == IF nodes[root].origin_dataset = 0 THEN root
                     ELSE nodes[root].origin_dataset
       IN  \E ok \in BOOLEAN :
            /\ apiLog' = apiLog \o SampleCalls(target, ok)
            /\ sampleRes' = [op |-> "get_inputs_sample",
                             outcome |-> IF ok THEN "rows" ELSE "empty",
                             before |-> apiLog]
    /\ UNCHANGED << nodes, cstack, root, conState, call, brSelf, brRecord, brOut >>

GetInputsSample ==
    /\ conState = "done"
    /\ Len(apiLog) + 2 <= MaxApiLog
    /\ IF nodes[root].origin_dataset = 0
       THEN /\ sampleRes' = [op |-> "get_inputs_sample", outcome |-> "ValueError",
                             before |-> apiLog]
            /\ UNCHANGED apiLog
       ELSE \E ok \in BOOLEAN :
            /\ apiLog' = apiLog \o SampleCalls(nodes[root].origin_dataset, ok)
            /\ sampleRes' = [op |-> "get_inputs_sample",
                             outcome |-> IF ok THEN "rows" ELSE "empty",
                             before |-> apiLog]
    /\ UNCHANGED << nodes, cstack, root, conState, call, brSelf, brRecord, brOut >>

(***************************************************************************)
(* Dataset.transform and Dataset._transform, on the node the client holds  *)
(***************************************************************************)
SampleRecords ==
    { << << "x", "s1" >>, << "f1", "i1" >>, << "zz", "i1" >> >>,
      << << "x", "sx" >> >>,
      << >> }

RecordLists == UNION { [1..n -> SampleRecords] : n \in 0..MaxRecs }

ColChoices == {1, 2}

\* what apply returns for the g-th generator: nrows rows of ncols cells,
\* each cell a token of its own
Matrix(g, nrows, ncols) == [k \in 1..nrows |-> [c \in 1..ncols |-> << g, k, c >>]]

Raise(c, e) == call' = [call EXCEPT ![c].pc = "raised", ![c].err = e]

TransformCall(c) ==
    /\ conState = "done"
    /\ call[c].pc \in {"idle", "returned", "raised"}
    /\ \E l \in RecordLists :
        call' = [call EXCEPT ![c] = [IdleCall EXCEPT !.pc = "rows", !.input_data_list = l]]
    /\ UNCHANGED << nodes, cstack, root, conState, apiLog, sampleRes,
                    brSelf, brRecord, brOut >>

\* mutant: a record whose row cannot be built is passed over
InputArrayStep_skip(c) ==
    /\ call[c].pc = "rows"
    /\ Len(call[c].rows) < Len(call[c].input_data_list)
    /\ LET r == InputArray(nodes[root], call[c].input_data_list[Len(call[c].rows) + 1])
       IN  call' = [call EXCEPT ![c].rows = Append(@, r.row)]
    /\ UNCHANGED << nodes, cstack, root, conState, apiLog, sampleRes,
                    brSelf, brRecord, brOut >>

\* one element of the list comprehension in transform
InputArrayStep(c) ==
    /\ call[c].pc = "rows"
    /\ Len(call[c].rows) < Len(call[c].input_data_list)
    /\ LET r == InputArray(nodes[root], call[c].input_data_list[Len(call[c].rows) + 1])
       IN  IF r.err # "none"
           THEN Raise(c, r.err)
           ELSE call' = [call EXCEPT ![c].rows = Append(@, r.row)]
    /\ UNCHANGED << nodes, cstack, root, conState, apiLog, sampleRes,
                    brSelf, brRecord, brOut >>

\* _transform up to the first generator: None.fields raises AttributeError,
\* iterating over None raises TypeError
TransformBegin(c) ==
    /\ call[c].pc = "rows"
    /\ Len(call[c].rows) = Len(call[c].input_data_list)
    /\ IF nodes[root].in_fields = None THEN Raise(c, "AttributeError")
       ELSE IF nodes[root].transformations = << >> THEN Raise(c, "TypeError")
       ELSE IF nodes[root].transformations[1] = << >>
            THEN call' = [call EXCEPT ![c].pc = "assemble"]
            ELSE call' = [call EXCEPT ![c].pc = "check", ![c].g = 1]
    /\ UNCHANGED << nodes, cstack, root, conState, apiLog, sampleRes,
                    brSelf, brRecord, brOut >>

\* mutant: the generators are walked from the last to the first
Transformation_reversed(c) ==
    nodes[root].transformations[1][Len(nodes[root].transformations[1]) + 1 - call[c].g]

Transformation(c) == nodes[root].transformations[1][call[c].g]

\* mutant: the answer of the check is not looked at
CheckStep_ignored(c, failed) ==
    call' = [call EXCEPT ![c].pc = "apply",
                ![c].ilog = Append(@, << "check", Transformation(c).field,
                                      IF failed THEN "error" ELSE "ok" >>)]

\* mutant: a generator whose check fails is left out and the loop goes on
CheckStep_skip_generator(c, failed) ==
    IF failed
    THEN call' = [call EXCEPT
                    ![c].pc = IF call[c].g = Len(nodes[root].transformations[1])
                              THEN "assemble" ELSE "check",
                    ![c].g = IF call[c].g = Len(nodes[root].transformations[1])
                             THEN @ ELSE @ + 1,
                    ![c].ilog = Append(@, << "check", Transformation(c).field, "error" >>)]
    ELSE call' = [call EXCEPT ![c].pc = "apply",
                     ![c].ilog = Append(@, << "check", Transformation(c).field, "ok" >>)]

\* evaluate_sexp(expr, fields, True); an "error" in its answer raises
CheckStep(c, failed) ==
    IF failed
    THEN call' = [call EXCEPT ![c].pc = "raised", ![c].err = "ValueError",
                     ![c].ilog = Append(@, << "check", Transformation(c).field, "error" >>)]
    ELSE call' = [call EXCEPT ![c].pc = "apply",
                     ![c].ilog = Append(@, << "check", Transformation(c).field, "ok" >>)]

Check(c) ==
    /\ call[c].pc = "check"
    /\ \E failed \in BOOLEAN : CheckStep(c, failed)
    /\ UNCHANGED << nodes, cstack, root, conState, apiLog, sampleRes,
                    brSelf, brRecord, brOut >>

\* mutant: a result row whose row-group does not exist yet is passed over
RECURSIVE Accumulate_skip(_, _, _, _)
Accumulate_skip(arrays, new_input, index, upto) ==
    IF index > upto THEN arrays
    ELSE Accumulate_skip(
            IF index > Len(arrays)
            THEN arrays
            ELSE [arrays EXCEPT ![index] = @ \o new_input[index]],
            new_input, index + 1, upto)

\* mutant: a result row is put in front of its row-group
RECURSIVE Accumulate_front(_, _, _, _)
Accumulate_front(arrays, new_input, index, upto) ==
    IF index > upto THEN arrays
    ELSE Accumulate_front(
            IF index > Len(arrays)
            THEN Append(arrays, new_input[index])
            ELSE [arrays EXCEPT ![index] = new_input[index] \o @],
            new_input, index + 1, upto)

\* for index, _ in enumerate(new_input): the row-group index is created
\* when missing and extended with result row index
RECURSIVE Accumulate(_, _, _, _)
Accumulate(arrays, new_input, index, upto) ==
    IF index > upto THEN arrays
    ELSE Accumulate(
            IF index > Len(arrays)
            THEN Append(arrays, new_input[index])
            ELSE [arrays EXCEPT ![index] = @ \o new_input[index]],
            new_input, index + 1, upto)

\* the names appended to out_headers while the result rows are walked
RECURSIVE Repeat(_, _)
Repeat(names, n) == IF n = 0 THEN << >> ELSE names \o Repeat(names, n - 1)

\* mutant: the names are put in front of the header list
HeadersAfter_prepend(out_headers, names, new_input) ==
    Repeat(names, Len(new_input)) \o out_headers

\* mutant: the names are appended once per generator
HeadersAfter_once(out_headers, names, new_input) == out_headers \o names

HeadersAfter(out_headers, names, new_input) ==
    out_headers \o Repeat(names, Len(new_input))

\* mutant: out_headers is one list shared by all activations
Apply_shared(c) ==
    /\ call[c].pc = "apply"
    /\ \E nrows \in 0..MaxResRows, ncols \in ColChoices :
        LET new_input == Matrix(call[c].g, nrows, ncols)
            last == call[c].g = Len(nodes[root].transformations[1])
        IN  call' = [d \in Callers |->
                IF d = c
                THEN [call[c] EXCEPT
                        !.pc = IF last THEN "assemble" ELSE "check",
                        !.g = IF last THEN @ ELSE @ + 1,
                        !.ilog = Append(@, << "apply", Transformation(c).field, call[c].rows >>),
                        !.applied = Append(@, new_input),
                        !.new_input_arrays = Accumulate(@, new_input, 1, Len(new_input)),
                        !.out_headers = HeadersAfter(@, Transformation(c).names, new_input)]
                ELSE [call[d] EXCEPT
                        !.out_headers = HeadersAfter(@, Transformation(c).names, new_input)]]
    /\ UNCHANGED << nodes, cstack, root, conState, apiLog, sampleRes,
                    brSelf, brRecord, brOut >>

\* mutant: out_headers starts as the first generator's own names list, so
\* extending it extends that list
Apply_aliased(c) ==
    /\ call[c].pc = "apply"
    /\ \E nrows \in 0..MaxResRows, ncols \in ColChoices :
        LET new_input == Matrix(call[c].g, nrows, ncols)
            last == call[c].g = Len(nodes[root].transformations[1])
            headers == HeadersAfter(call[c].out_headers, Transformation(c).names, new_input)
        IN  /\ call' = [call EXCEPT
                    ![c].pc = IF last THEN "assemble" ELSE "check",
                    ![c].g = IF last THEN @ ELSE @ + 1,
                    ![c].ilog = Append(@, << "apply", Transformation(c).field, call[c].rows >>),
                    ![c].applied = Append(@, new_input),
                    ![c].new_input_arrays = Accumulate(@, new_input, 1, Len(new_input)),
                    ![c].out_headers = headers]
            /\ nodes' = [nodes EXCEPT ![root].transformations[1][1].names =
                            IF headers = << >> THEN @ ELSE headers]
    /\ UNCHANGED << cstack, root, conState, apiLog, sampleRes, brSelf, brRecord, brOut >>

\* mutant: a later generator is applied to what the earlier ones produced
Apply_chained(c) ==
    /\ call[c].pc = "apply"
    /\ \E nrows \in 0..MaxResRows, ncols \in ColChoices :
        LET new_input == Matrix(call[c].g, nrows, ncols)
            last == call[c].g = Len(nodes[root].transformations[1])
            input_arrays == IF call[c].g = 1 THEN call[c].rows
                            ELSE call[c].new_input_arrays
        IN  call' = [call EXCEPT
                ![c].pc = IF last THEN "assemble" ELSE "check",
                ![c].g = IF last THEN @ ELSE @ + 1,
                ![c].ilog = Append(@, << "apply", Transformation(c).field, input_arrays >>),
                ![c].applied = Append(@, new_input),
                ![c].new_input_arrays = Accumulate(@, new_input, 1, Len(new_input)),
                ![c].out_headers = HeadersAfter(@, Transformation(c).names, new_input)]
    /\ UNCHANGED << nodes, cstack, root, conState, apiLog, sampleRes,
                    brSelf, brRecord, brOut >>

\* eval_and_apply_sexp(expr, fields, input_arrays) and the accumulation
Apply(c) ==
    /\ call[c].pc = "apply"
    /\ \E nrows \in 0..MaxResRows, ncols \in ColChoices :
        LET new_input == Matrix(call[c].g, nrows, ncols)
            last == call[c].g = Len(nodes[root].transformations[1])
        IN  call' = [call EXCEPT
                ![c].pc = IF last THEN "assemble" ELSE "check",
                ![c].g = IF last THEN @ ELSE @ + 1,
                ![c].ilog = Append(@, << "apply", Transformation(c).field, call[c].rows >>),
                ![c].applied = Append(@, new_input),
                ![c].new_input_arrays = Accumulate(@, new_input, 1, Len(new_input)),
                ![c].out_headers = HeadersAfter(@, Transformation(c).names, new_input)]
    /\ UNCHANGED << nodes, cstack, root, conState, apiLog, sampleRes,
                    brSelf, brRecord, brOut >>

\* the records transform returns: out_arrays copies the row-groups, and
\* every row is zipped with the whole header list
Assembled(out_headers, new_input_arrays) ==
    [i \in 1..Len(new_input_arrays) |-> ZipDict(out_headers, new_input_arrays[i])]

Assemble(c) ==
    /\ call[c].pc = "assemble"
    /\ call' = [call EXCEPT ![c].pc = "returned",
                   ![c].result = Assembled(call[c].out_headers, call[c].new_input_arrays)]
    /\ UNCHANGED << nodes, cstack, root, conState, apiLog, sampleRes,
                    brSelf, brRecord, brOut >>

(***************************************************************************)
(* Specification: one client constructs a node and then uses it            *)
(***************************************************************************)
Init ==
    /\ nodes = << >>
    /\ cstack = << >>
    /\ root = 0
    /\ conState = "idle"
    /\ call = [c \in Callers |-> IdleCall]
    /\ apiLog = << >>
    /\ sampleRes = NoSample
    /\ brSelf = BlankNode
    /\ brRecord = << >>
    /\ brOut = Idle

Next ==
    \/ \E d \in DatasetIds : Construct(d)
    \/ InitBody
    \/ AfterOrigin
    \/ GetSample
    \/ GetInputsSample
    \/ TransformCall("c1")
    \/ InputArrayStep("c1")
    \/ TransformBegin("c1")
    \/ Check("c1")
    \/ Apply("c1")
    \/ Assemble("c1")

Spec == Init /\ [][Next]_vars

(***************************************************************************)
(* Properties of construction, transform and the sampling helpers          *)
(***************************************************************************)
tc == call["c1"]

Self == nodes[root]

Generators == Self.transformations[1]

\* every apply so far returned as many columns as its generator has names
ColumnsMatchNames ==
    \A g \in 1..Len(tc.applied) : \A k \in 1..Len(tc.applied[g]) :
        Len(tc.applied[g][k]) = Len(Generators[g].names)

\* every apply so far returned the same number of result rows
SameRowCounts ==
    \A g, h \in 1..Len(tc.applied) : Len(tc.applied[g]) = Len(tc.applied[h])

\* the output names of all generators are pairwise distinct
DistinctNames ==
    \A g, h \in 1..Len(Generators) :
        \A i \in 1..Len(Generators[g].names), j \in 1..Len(Generators[h].names) :
            (g # h \/ i # j) => Generators[g].names[i] # Generators[h].names[j]

\* C1: once _transform has returned, the header list is as long as every
\* output row (stated for the calls in which every apply returned as many
\* columns as its generator has names and all generators returned the same
\* number of rows, the calls in which the interpreter cannot be the cause)
C1_HeadersMatchRows ==
    (tc.pc \in {"assemble", "returned"} /\ ColumnsMatchNames /\ SameRowCounts) =>
        \A i \in 1..Len(tc.new_input_arrays) :
            Len(tc.out_headers) = Len(tc.new_input_arrays[i])

\* C2: with pairwise distinct output names and as many columns as names,
\* the k-th returned record maps every output name of every generator that
\* emitted a row k to that generator's value at row k in the name's column
\* (stated for the calls in which all generators returned the same number
\* of rows)
C2_RecordsMapNames ==
    (tc.pc = "returned" /\ DistinctNames /\ ColumnsMatchNames /\ SameRowCounts) =>
        \A g \in 1..Len(tc.applied) : \A k \in 1..Len(tc.applied[g]) :
            \A n \in 1..Len(Generators[g].names) :
                /\ DictHas(tc.result[k], Generators[g].names[n])
                /\ DictGet(tc.result[k], Generators[g].names[n]) = tc.applied[g][k][n]

\* the node the client holds is finished, has an origin, and its payload
\* declares no output_fields
EmptyGeneratorNode ==
    /\ conState = "done"
    /\ Store[Self.resource_id].finished
    /\ Self.origin_dataset # 0
    /\ Store[Self.resource_id].output_fields = << >>

\* C3: on a finished node with an origin and no output_fields, transform
\* raises nothing but a cast error of a record, and what it returns is the
\* empty list of derived columns
C3_EmptyGeneratorsTransform ==
    EmptyGeneratorNode =>
        /\ tc.pc = "raised" => tc.err = "ValueError" /\ tc.ilog = << >>
        /\ tc.pc = "returned" => tc.out_headers = << >> /\ tc.new_input_arrays = << >>

\* C4: a check that reports an error is the last interpreter call of the
\* transform call, which ends raised with the expression error and holds no
\* output records, whatever the earlier generators accumulated
C4_CheckErrorAborts ==
    \A i \in 1..Len(tc.ilog) :
        (tc.ilog[i][1] = "check" /\ tc.ilog[i][3] = "error") =>
            /\ i = Len(tc.ilog)
            /\ tc.pc = "raised"
            /\ tc.err = "ValueError"
            /\ tc.result = << >>

\* the second generator's check failed after the first one had been
\* applied and had left row-groups behind
C4_Witness ==
    /\ tc.pc = "raised"
    /\ Len(tc.ilog) = 3
    /\ tc.ilog[3][1] = "check" /\ tc.ilog[3][3] = "error"
    /\ tc.new_input_arrays # << >>
    /\ tc.result = << >>

\* C8: get_inputs_sample on a node whose origin is None raises the usage
\* error, and the retrieval collaborator has received no call from it
C8_NoOriginGuard ==
    (conState = "done" /\ sampleRes.op = "get_inputs_sample"
        /\ Self.origin_dataset = 0) =>
        /\ sampleRes.outcome = "ValueError"
        /\ apiLog = sampleRes.before

\* get_inputs_sample has raised on the root dataset
C8_Witness ==
    /\ conState = "done"
    /\ Self.resource_id = "ds_root"
    /\ sampleRes.op = "get_inputs_sample"
    /\ sampleRes.outcome = "ValueError"

\* the node the client holds was built from a payload that is not finished
UnfinishedNode == conState = "done" /\ ~Store[Self.resource_id].finished

\* C9: on a node built from an unfinished payload a transform call builds
\* no row, makes no interpreter call and returns nothing, and the step it
\* takes after the call has begun is the one that raises
C9_UnfinishedNeverTransforms ==
    /\ [](UnfinishedNode =>
            /\ tc.pc \in {"idle", "rows", "raised"}
            /\ tc.rows = << >>
            /\ tc.ilog = << >>
            /\ tc.result = << >>
            /\ tc.pc = "raised" => tc.err # "none")
    /\ [][(UnfinishedNode /\ tc.pc = "rows" /\ call' # call)
            => call'["c1"].pc = "raised"]_vars

\* transform([]) has raised on the node built from the unfinished payload
C9_Witness ==
    /\ UnfinishedNode
    /\ Self.resource_id = "ds_unfin"
    /\ tc.pc = "raised"
    /\ tc.input_data_list = << >>
    /\ tc.err = "AttributeError"

\* C10: the constructor call on an unfinished payload returns (it does not
\* raise) a node with no schema, no input schema, no origin, no generators
\* and no header lists; it is the only object built and no get_dataset
\* call has been made
C10_UnfinishedConstruction ==
    (conState \in {"done", "raised"} /\ ~Store[nodes[1].resource_id].finished) =>
        /\ conState = "done"
        /\ root = 1
        /\ nodes = << [BlankNode EXCEPT !.resource_id = nodes[1].resource_id] >>
        /\ \A i \in 1..Len(apiLog) : apiLog[i][1] # "get_dataset"

\* the payload ds_unfin declares an origin and output_fields
C10_Witness ==
    /\ conState = "done"
    /\ nodes[1].resource_id = "ds_unfin"
    /\ Store["ds_unfin"].origin_dataset # None
    /\ Store["ds_unfin"].output_fields # << >>

\* the payload node n was built from
PayloadOf(n) == Store[nodes[n].resource_id]

\* C11: once the constructor has returned, every node of the chain whose
\* payload is finished and declares an origin holds as origin the node
\* built from the retrieved origin payload, and its input schema is that
\* node's output schema; later operations keep it so
C11_OriginRelation ==
    conState = "done" =>
        \A n \in 1..Len(nodes) :
            (IsFinished(PayloadOf(n)) /\ PayloadOf(n).origin_dataset # None) =>
                /\ nodes[n].origin_dataset \in 1..Len(nodes)
                /\ nodes[n].origin_dataset # n
                /\ nodes[nodes[n].origin_dataset].resource_id = PayloadOf(n).origin_dataset
                /\ \E i \in 1..Len(apiLog) :
                        apiLog[i] = << "get_dataset", PayloadOf(n).origin_dataset >>
                /\ nodes[n].in_fields = nodes[nodes[n].origin_dataset].out_fields
                /\ nodes[n].in_fields = PayloadOf(nodes[n].origin_dataset).fields

\* the chain ds_grand -> ds_child -> ds_root is built and a transform call
\* on it has returned
C11_Witness ==
    /\ conState = "done"
    /\ Len(nodes) = 3
    /\ nodes[1].resource_id = "ds_grand"
    /\ nodes[1].in_fields = "sB"
    /\ nodes[2].in_fields = "sA"
    /\ tc.pc = "returned"

\* C12: after the constructor has returned, no step of transform,
\* get_sample or get_inputs_sample, returning or raising, changes any
\* object of the heap (ids, schemas, origins, generators with their names,
\* header lists) or the node the client holds
C12_NodeImmutable ==
    [][conState = "done" => (nodes' = nodes /\ root' = root /\ conState' = "done")]_vars

\* a transform call has returned, generators applied, and a sampling call
\* has been made on the same node
C12_Witness ==
    /\ conState = "done"
    /\ Self.resource_id = "ds_child"
    /\ tc.pc = "returned"
    /\ tc.out_headers # << >>
    /\ sampleRes.op = "get_inputs_sample"

(***************************************************************************)
(* Specification: two callers run transform on one constructed node, their *)
(* steps interleaved                                                       *)
(***************************************************************************)
\* the heap after Dataset(ds_child) has returned
ChildNodes ==
    << SetInHeaders(AddTransformations(InitNode("ds_child"), 2, InitNode("ds_root"),
                        get_new_fields(Store["ds_child"].output_fields))),
       InitNode("ds_root") >>

\* the input lists of the two callers
ConcLists ==
    { << << << "x", "s1" >>, << "f1", "i1" >>, << "zz", "i1" >> >>, << >> >>,
      << << << "x", "sx" >> >> >> }

InitConc ==
    /\ nodes = ChildNodes
    /\ cstack = << >>
    /\ root = 1
    /\ conState = "done"
    /\ call \in [Callers -> { [IdleCall EXCEPT !.pc = "rows", !.input_data_list = l] :
                                l \in ConcLists }]
    /\ apiLog = << << "get_dataset", "ds_root" >> >>
    /\ sampleRes = NoSample
    /\ brSelf = BlankNode
    /\ brRecord = << >>
    /\ brOut = Idle

NextConc ==
    \E c \in Callers :
        \/ InputArrayStep(c)
        \/ TransformBegin(c)
        \/ Check(c)
        \/ Apply(c)
        \/ Assemble(c)

SpecConc == InitConc /\ [][NextConc]_vars

(***************************************************************************)
(* What one transform call yields when it runs alone, from its input list  *)
(* and the answers the interpreter gave it                                 *)
(***************************************************************************)
\* the largest number of result rows among the matrices
MaxRows(applied) ==
    IF applied = << >> THEN 0
    ELSE CHOOSE m \in { Len(applied[g]) : g \in 1..Len(applied) } :
            \A g \in 1..Len(applied) : Len(applied[g]) <= m

\* the names of generators 1..g, each list once per result row it emitted
RECURSIVE HeadersUpTo(_, _, _)
HeadersUpTo(gens, applied, g) ==
    IF g = 0 THEN << >>
    ELSE HeadersUpTo(gens, applied, g - 1) \o Repeat(gens[g].names, Len(applied[g]))

\* result row k of generators 1..g, those that have one, side by side
RECURSIVE RowUpTo(_, _, _)
RowUpTo(applied, k, g) ==
    IF g = 0 THEN << >>
    ELSE RowUpTo(applied, k, g - 1)
            \o (IF k <= Len(applied[g]) THEN applied[g][k] ELSE << >>)

\* some check of the call answered with an error
CheckFailed(ilog) ==
    \E i \in 1..Len(ilog) : ilog[i][1] = "check" /\ ilog[i][3] = "error"

AloneOutcome(self, l, ilog, applied) ==
    LET outs == [i \in 1..Len(l) |-> InputArray(self, l[i])]
        bad == { i \in 1..Len(l) : outs[i].err # "none" }
    IN  IF bad # {}
        THEN [err |-> outs[CHOOSE i \in bad : \A j \in bad : i <= j].err, result |-> << >>]
        ELSE IF self.in_fields = None THEN [err |-> "AttributeError", result |-> << >>]
        ELSE IF self.transformations = << >> THEN [err |-> "TypeError", result |-> << >>]
        ELSE IF CheckFailed(ilog) THEN [err |-> "ValueError", result |-> << >>]
        ELSE [err |-> "none",
              result |-> [k \in 1..MaxRows(applied) |->
                            ZipDict(HeadersUpTo(self.transformations[1], applied, Len(applied)),
                                    RowUpTo(applied, k, Len(applied)))]]

\* C13: with two callers interleaved on one node, a call that has ended
\* holds the outcome (records or error) it yields when run alone on its
\* own input list with the answers the interpreter gave to it
C13_InterleavingTransparent ==
    \A c \in Callers :
        call[c].pc \in {"returned", "raised"} =>
            LET alone == AloneOutcome(Self, call[c].input_data_list,
                                      call[c].ilog, call[c].applied)
            IN  /\ call[c].err = alone.err
                /\ call[c].result = alone.result
                /\ (call[c].pc = "returned") = (alone.err = "none")
                /\ call[c].pc = "returned" =>
                        Len(call[c].applied) = Len(Self.transformations[1])

\* both callers have returned, with different numbers of result rows, so
\* their steps were interleaved on differing accumulators
C13_Witness ==
    /\ call["c1"].pc = "returned"
    /\ call["c2"].pc = "returned"
    /\ Len(call["c1"].result) = 2
    /\ Len(call["c2"].result) = 1
    /\ call["c1"].out_headers # call["c2"].out_headers

\* C15: transform returns one record per output row, and there are as many
\* output rows as the largest number of result rows an apply of the call
\* returned, whatever the number of input records
C15_RecordCount ==
    /\ tc.pc \in {"assemble", "returned"} =>
            Len(tc.new_input_arrays) = MaxRows(tc.applied)
    /\ tc.pc = "returned" => Len(tc.result) = Len(tc.new_input_arrays)

\* two input records, one returned record: the first generator returned no
\* row and the second one row
C15_Witness ==
    /\ tc.pc = "returned"
    /\ Len(tc.input_data_list) = 2
    /\ Len(tc.applied) = 2
    /\ Len(tc.applied[1]) = 0
    /\ Len(tc.applied[2]) = 1
    /\ Len(tc.result) = 1

\* the smaller of two numbers
Min(a, b) == IF a <= b THEN a ELSE b

\* the positions of name n among the headers that row has a value for
PositionsOf(headers, row, n) ==
    { i \in 1..Min(Len(headers), Len(row)) : headers[i] = n }

\* the largest element of a non-empty set of numbers
Last(P) == CHOOSE i \in P : \A j \in P : j <= i

\* C16: each assembled record maps a header name to the row value at the
\* last position carrying that name among the positions the row has, and
\* holds no other key; values at earlier positions of the name are gone
C16_LastWriteWins ==
    tc.pc = "returned" =>
        \A k \in 1..Len(tc.result) :
            /\ \A n \in { tc.out_headers[i] : i \in 1..Len(tc.out_headers) } :
                LET P == PositionsOf(tc.out_headers, tc.new_input_arrays[k], n)
                IN  IF P = {} THEN ~DictHas(tc.result[k], n)
                    ELSE /\ DictHas(tc.result[k], n)
                         /\ DictGet(tc.result[k], n) = tc.new_input_arrays[k][Last(P)]
            /\ DictKeys(tc.result[k]) \subseteq
                    { tc.out_headers[i] : i \in 1..Len(tc.out_headers) }
            /\ Len(tc.result[k]) = Cardinality(DictKeys(tc.result[k]))

\* ds_dup names both columns of its generator "a": the record holds the
\* second column under "a"
C16_Witness ==
    /\ conState = "done"
    /\ Self.resource_id = "ds_dup"
    /\ tc.pc = "returned"
    /\ tc.out_headers = << "a", "a" >>
    /\ tc.new_input_arrays = << << << 1, 1, 1 >>, << 1, 1, 2 >> >> >>
    /\ tc.result = << << << "a", << 1, 1, 2 >> >> >> >>

\* the cast of some record of the call's input list fails
SomeCastFails ==
    \E i \in 1..Len(tc.input_data_list) :
        InputArray(Self, tc.input_data_list[i]).err = "ValueError"

\* C17: when the cast of a record of the list fails, wherever the record
\* stands in the list, the call builds rows up to that record at most,
\* ends raised with the cast error, returns nothing, and no check or apply
\* is made
C17_CastErrorAborts ==
    (conState = "done" /\ tc.pc # "idle" /\ SomeCastFails) =>
        /\ tc.pc \in {"rows", "raised"}
        /\ tc.pc = "raised" => tc.err = "ValueError"
        /\ \A i \in 1..Len(tc.rows) :
                InputArray(Self, tc.input_data_list[i]).err = "none"
        /\ tc.ilog = << >>
        /\ tc.applied = << >>
        /\ tc.result = << >>

\* the second record of the list could not be cast, after the row of the
\* first had been built
C17_Witness ==
    /\ conState = "done"
    /\ Self.resource_id = "ds_child"
    /\ Len(tc.input_data_list) = 2
    /\ tc.input_data_list[2] = << << "x", "sx" >> >>
    /\ Len(tc.rows) = 1
    /\ tc.pc = "raised"
    /\ tc.err = "ValueError"

\* every apply of the call returned exactly one result row
OneRowEach == \A g \in 1..Len(tc.applied) : Len(tc.applied[g]) = 1

\* the output names of all generators
AllNames ==
    UNION { { Generators[g].names[i] : i \in 1..Len(Generators[g].names) } :
                g \in 1..Len(Generators) }

\* C18: when every check succeeds, every apply returns one row with as
\* many columns as names and all names are distinct, transform returns one
\* record, whose keys are the names of all generators and which maps each
\* name to the result column at its position
C18_SingleRowRecord ==
    (tc.pc = "returned" /\ DistinctNames /\ ColumnsMatchNames /\ OneRowEach) =>
        /\ Len(tc.result) = 1
        /\ DictKeys(tc.result[1]) = AllNames
        /\ \A g \in 1..Len(Generators) : \A n \in 1..Len(Generators[g].names) :
                DictGet(tc.result[1], Generators[g].names[n]) = tc.applied[g][1][n]

\* ds_child, one row per generator: {a: e1's column, b, c: e2's columns}
C18_Witness ==
    /\ conState = "done"
    /\ Self.resource_id = "ds_child"
    /\ tc.pc = "returned"
    /\ tc.result = << << << "a", << 1, 1, 1 >> >>,
                         << "b", << 2, 1, 1 >> >>,
                         << "c", << 2, 1, 2 >> >> >> >>

\* the constructor call was made on a finished payload without origin
RootPayload ==
    /\ conState \in {"done", "raised"}
    /\ IsFinished(PayloadOf(1))
    /\ PayloadOf(1).origin_dataset = None

\* C19: the constructor call on a finished payload without origin returns
\* a single node with no origin, no input schema and no generators, also
\* when output_fields are listed, and makes no get_dataset call; every
\* transform call on it raises at its first step without an interpreter
\* call, the heap is left as it was, and a get_sample call makes its two
\* retrieval calls whatever transform calls failed before
C19_RootNode ==
    /\ [](RootPayload =>
            /\ conState = "done"
            /\ root = 1
            /\ Len(nodes) = 1
            /\ nodes[1].origin_dataset = 0
            /\ nodes[1].in_fields = None
            /\ nodes[1].transformations = << >>
            /\ nodes[1].out_fields = PayloadOf(1).fields
            /\ \A i \in 1..Len(apiLog) : apiLog[i][1] # "get_dataset"
            /\ tc.pc \in {"idle", "rows", "raised"}
            /\ tc.pc = "raised" => tc.err = "AttributeError"
            /\ tc.rows = << >> /\ tc.ilog = << >> /\ tc.result = << >>
            /\ sampleRes.op = "get_sample" =>
                    apiLog = sampleRes.before
                                \o SampleCalls(1, sampleRes.outcome = "rows"))
    /\ [][(RootPayload /\ tc.pc = "rows" /\ call' # call)
            => (call'["c1"].pc = "raised" /\ nodes' = nodes /\ root' = root
                /\ apiLog' = apiLog /\ sampleRes' = sampleRes)]_vars

\* on the node built from ds_rootgen, which lists output_fields, a
\* transform call has raised and get_sample has been answered
C19_Witness ==
    /\ conState = "done"
    /\ Self.resource_id = "ds_rootgen"
    /\ Store["ds_rootgen"].output_fields # << >>
    /\ tc.pc = "raised"
    /\ sampleRes.op = "get_sample"
    /\ sampleRes.outcome = "rows"
    /\ Len(apiLog) = 2

\* C20: the interpreter calls of a transform call are check(g1), apply(g1),
\* check(g2), apply(g2), ... in the declared order of the generators, every
\* apply right after the successful check of the same generator; a call
\* that returns has checked and applied every generator exactly once
C20_CallOrder ==
    conState = "done" =>
        /\ \A j \in 1..Len(tc.ilog) :
            /\ (j + 1) \div 2 <= Len(Generators)
            /\ tc.ilog[j][1] = (IF j % 2 = 1 THEN "check" ELSE "apply")
            /\ tc.ilog[j][2] = Generators[(j + 1) \div 2].field
            /\ j % 2 = 0 => tc.ilog[j - 1][3] = "ok"
        /\ tc.pc = "returned" => Len(tc.ilog) = 2 * Len(Generators)

\* the call on ds_child has returned after check(e1), apply(e1), check(e2),
\* apply(e2)
C20_Witness ==
    /\ conState = "done"
    /\ Self.resource_id = "ds_child"
    /\ tc.pc = "returned"
    /\ Len(tc.ilog) = 4
    /\ tc.ilog[1] = << "check", "e1", "ok" >>
    /\ tc.ilog[3] = << "check", "e2", "ok" >>

\* the positions of the interpreter log that hold an apply
Applies == { q \in 1..Len(tc.ilog) : tc.ilog[q][1] = "apply" }

\* C21: when the check of generator j answers with an error, that check is
\* the last interpreter call of the transform call, which is over (the
\* next thing the caller can do is begin a new call); apply has then been
\* called once for each of the generators 1..j-1, in that order, and for
\* no other
C21_FailFast ==
    /\ [](\A p \in 1..Len(tc.ilog) :
            (tc.ilog[p][1] = "check" /\ tc.ilog[p][3] = "error") =>
                LET j == Cardinality({ q \in 1..p : tc.ilog[q][1] = "check" })
                IN  /\ p = Len(tc.ilog)
                    /\ tc.pc = "raised"
                    /\ j <= Len(Generators)
                    /\ tc.ilog[p][2] = Generators[j].field
                    /\ Cardinality(Applies) = j - 1
                    /\ Len(tc.applied) = j - 1
                    /\ \A i \in 1..(j - 1) :
                            /\ tc.ilog[2 * i][1] = "apply"
                            /\ tc.ilog[2 * i][2] = Generators[i].field)
    /\ [][(CheckFailed(tc.ilog) /\ call' # call)
            => (call'["c1"].pc = "rows" /\ call'["c1"].ilog = << >>)]_vars

\* on ds_child the check of the second generator failed: one apply, of the
\* first generator, has been made
C21_Witness ==
    /\ conState = "done"
    /\ Self.resource_id = "ds_child"
    /\ tc.pc = "raised"
    /\ Len(tc.ilog) = 3
    /\ tc.ilog[1] = << "check", "e1", "ok" >>
    /\ tc.ilog[2][1] = "apply"
    /\ tc.ilog[3] = << "check", "e2", "error" >>
    /\ Len(tc.applied) = 1

\* cell a stands before cell b: earlier generator, or same generator and
\* earlier column
Before(a, b) == a[1] < b[1] \/ (a[1] = b[1] /\ a[3] < b[3])

\* C22: after the generator loop, output row k holds exactly the cells of
\* result row k of the generators whose apply returned at least k rows,
\* generator after generator in declared order and column after column;
\* a generator with fewer rows leaves no cell and no gap in row k
C22_RowConcatenation ==
    tc.pc \in {"assemble", "returned"} =>
        \A k \in 1..Len(tc.new_input_arrays) :
            LET row == tc.new_input_arrays[k]
            IN  /\ \A p \in 1..Len(row) :
                    /\ row[p][2] = k
                    /\ row[p][1] \in 1..Len(tc.applied)
                    /\ Len(tc.applied[row[p][1]]) >= k
                    /\ row[p][3] \in 1..Len(tc.applied[row[p][1]][k])
                    /\ row[p] = tc.applied[row[p][1]][k][row[p][3]]
                /\ \A p, q \in 1..Len(row) : p < q => Before(row[p], row[q])
                /\ \A g \in 1..Len(tc.applied) :
                    Len(tc.applied[g]) >= k =>
                        \A c \in 1..Len(tc.applied[g][k]) :
                            \E p \in 1..Len(row) : row[p] = tc.applied[g][k][c]

\* the first generator returned one row of one column, the second two rows
\* of two columns: its first column stands second in row 1 and first in
\* row 2, and the rows differ in length
C22_Witness ==
    /\ conState = "done"
    /\ Self.resource_id = "ds_child"
    /\ tc.pc = "returned"
    /\ tc.new_input_arrays = << << << 1, 1, 1 >>, << 2, 1, 1 >>, << 2, 1, 2 >> >>,
                                << << 2, 2, 1 >>, << 2, 2, 2 >> >> >>

\* C23: the header list holds, generator after generator in declared
\* order, the generator's names once for every result row its apply
\* returned: r copies for r rows, none for no row
C23_HeadersPerRow ==
    (conState = "done" /\ tc.pc \in {"check", "apply", "assemble", "returned"}) =>
        /\ tc.out_headers = HeadersUpTo(Generators, tc.applied, Len(tc.applied))
        /\ \A g \in 1..Len(tc.applied) :
                Cardinality({ i \in 1..Len(tc.out_headers) :
                                \E n \in 1..Len(Generators[g].names) :
                                    tc.out_headers[i] = Generators[g].names[n] })
                    >= Len(tc.applied[g])

\* on ds_child e1 returned two rows and e2 one row: a, a, b, c
C23_Witness ==
    /\ conState = "done"
    /\ Self.resource_id = "ds_child"
    /\ tc.pc = "returned"
    /\ Len(tc.applied[1]) = 2
    /\ Len(tc.applied[2]) = 1
    /\ tc.out_headers = << "a", "a", "b", "c" >>

\* the rows _input_array builds for the records of the call's list
BuiltRows ==
    [i \in 1..Len(tc.input_data_list) |-> InputArray(Self, tc.input_data_list[i]).row]

\* C24: the rows of a transform call are the rows built from its records,
\* one per record in the order of the list, and every apply of the call
\* received that whole list, whatever the earlier generators returned
C24_SameRowsToEveryApply ==
    conState = "done" =>
        /\ tc.pc = "rows" => tc.rows = SubSeq(BuiltRows, 1, Len(tc.rows))
        /\ tc.pc \in {"check", "apply", "assemble", "returned"} => tc.rows = BuiltRows
        /\ \A j \in 1..Len(tc.ilog) :
                tc.ilog[j][1] = "apply" => tc.ilog[j][3] = BuiltRows

\* both applies of ds_child received the two rows built from a record with
\* one value and an empty record, after the first had returned two rows
C24_Witness ==
    /\ conState = "done"
    /\ Self.resource_id = "ds_child"
    /\ tc.pc = "returned"
    /\ Len(tc.input_data_list) = 2
    /\ tc.ilog[2][3] = << << "i1", "s1" >>, << None, None >> >>
    /\ tc.ilog[4][3] = tc.ilog[2][3]
    /\ Len(tc.applied[1]) = 2

(***************************************************************************)
(* Specification: one client constructs a node and samples it; a           *)
(* constructor call that has begun runs on, its steps are taken one after  *)
(* the other by the calling thread                                         *)
(***************************************************************************)
NextCons ==
    \/ \E d \in DatasetIds : Construct(d)
    \/ InitBody
    \/ AfterOrigin
    \/ GetSample
    \/ GetInputsSample

SpecCons == Init /\ [][NextCons]_vars /\ WF_vars(InitBody) /\ WF_vars(AfterOrigin)

\* the origin ids Dataset(d) retrieves, outermost first, n levels at most
RECURSIVE OriginChain(_, _)
OriginChain(d, n) ==
    IF n = 0 \/ ~NeedsOrigin(d) THEN << >>
    ELSE << Store[d].origin_dataset >> \o OriginChain(Store[d].origin_dataset, n - 1)

\* d followed by its origin chain
Lineage(d) == << d >> \o OriginChain(d, Cardinality(DatasetIds))

\* some dataset is its own ancestor along the chain of d
Cyclic(d) ==
    \E i, j \in 1..Len(Lineage(d)) : i # j /\ Lineage(d)[i] = Lineage(d)[j]

AllFinished(d) == \A i \in 1..Len(Lineage(d)) : IsFinished(Store[Lineage(d)[i]])

\* d heads an acyclic chain of finished datasets that the recursion bound
\* of the model lets through
FinishedChain(d) == ~Cyclic(d) /\ AllFinished(d) /\ Len(Lineage(d)) <= MaxDepth

\* the get_dataset calls made so far, in order
Retrieved == SelectSeq(apiLog, LAMBDA e : e[1] = "get_dataset")

\* C25: the constructor call on a dataset that heads an acyclic chain of
\* finished ancestors returns; it has then retrieved every ancestor once,
\* in chain order, and built one node per ancestor. While it runs, the
\* activations are those of the outermost levels, each waiting for the
\* next, so the levels return innermost first, and one retrieval has been
\* made per level below the first. Over a cyclic chain of finished
\* datasets the call never returns and never raises
C25_ConstructionTerminates ==
    /\ \A d \in DatasetIds :
        FinishedChain(d) =>
            ((conState = "running" /\ cstack[1].arg = d) ~> (conState = "done"))
    /\ []((conState = "done" /\ FinishedChain(nodes[1].resource_id)) =>
            LET chain == OriginChain(nodes[1].resource_id, MaxDepth)
            IN  /\ Retrieved = [i \in 1..Len(chain) |-> << "get_dataset", chain[i] >>]
                /\ Len(nodes) = Len(chain) + 1
                /\ \A i \in 1..Len(chain) :
                        /\ nodes[i + 1].resource_id = chain[i]
                        /\ nodes[i].origin_dataset = i + 1)
    /\ [](conState = "running" =>
            /\ Len(cstack) >= 1
            /\ Len(nodes) >= Len(cstack)
            /\ Len(Retrieved) = Len(nodes) - 1
            /\ \A i \in 1..Len(cstack) :
                    /\ cstack[i].self = i
                    /\ i < Len(cstack) => cstack[i].pc = "wait")
    /\ [][(conState = "running" /\ conState' = "running")
            => Len(cstack') \in {Len(cstack) - 1, Len(cstack) + 1}]_vars
    /\ [][(conState = "running" /\ Cyclic(cstack[1].arg) /\ AllFinished(cstack[1].arg))
            => conState' = "running"]_vars

\* Dataset(ds_grand) has returned after retrieving ds_child, then ds_root
C25_Witness ==
    /\ conState = "done"
    /\ nodes[1].resource_id = "ds_grand"
    /\ Retrieved = << << "get_dataset", "ds_child" >>, << "get_dataset", "ds_root" >> >>
    /\ sampleRes.op = "none"

\* the generators node n holds, none when the attribute is None
GeneratorsOf(n) ==
    IF nodes[n].transformations = << >> THEN << >> ELSE nodes[n].transformations[1]

\* C26: every node of a constructed chain that has an origin holds one
\* generator per entry of its payload's output_fields, in payload order,
\* with the entry's generator as expression and the entry's names as names
C26_GeneratorsFollowPayload ==
    conState = "done" =>
        \A n \in 1..Len(nodes) :
            nodes[n].origin_dataset # 0 =>
                /\ Len(GeneratorsOf(n)) = Len(PayloadOf(n).output_fields)
                /\ \A i \in 1..Len(GeneratorsOf(n)) :
                        /\ GeneratorsOf(n)[i].field = PayloadOf(n).output_fields[i].generator
                        /\ GeneratorsOf(n)[i].names = PayloadOf(n).output_fields[i].names

\* the node built from ds_child holds e1 -> [a], then e2 -> [b, c]
C26_Witness ==
    /\ conState = "done"
    /\ Self.resource_id = "ds_child"
    /\ Store["ds_child"].output_fields[1].generator = "e1"
    /\ Self.transformations = << << [field |-> "e1", names |-> << "a" >>],
                                   [field |-> "e2", names |-> << "b", "c" >>] >> >>

\* C27: the constructor call on a finished payload whose origin payload is
\* not finished ends in an error: the origin node was built without an
\* output schema, the child got no input schema and no input header lists,
\* and the client holds no node; a constructor call that returns never
\* leaves a node with an origin and no input schema
C27_UnfinishedOriginRaises ==
    /\ conState = "done" =>
            \A n \in 1..Len(nodes) :
                nodes[n].origin_dataset # 0 =>
                    /\ nodes[n].in_fields # None
                    /\ nodes[n].in_header_ids # << >>
                    /\ IsFinished(PayloadOf(nodes[n].origin_dataset))
    /\ (conState \in {"done", "raised"}
            /\ \E n \in 1..(Len(nodes) - 1) :
                    /\ IsFinished(PayloadOf(n))
                    /\ PayloadOf(n).origin_dataset = nodes[n + 1].resource_id
                    /\ ~IsFinished(PayloadOf(n + 1))) =>
            /\ conState = "raised"
            /\ root = 0
            /\ cstack = << >>
            /\ tc.pc = "idle"
            /\ nodes[Len(nodes)].out_fields = None
            /\ nodes[Len(nodes) - 1].origin_dataset = Len(nodes)
            /\ nodes[Len(nodes) - 1].in_fields = None
            /\ nodes[Len(nodes) - 1].in_header_ids = << >>
            /\ nodes[Len(nodes) - 1].in_header_names = << >>
    /\ conState = "raised" => ~IsFinished(PayloadOf(Len(nodes)))

\* Dataset(ds_orphan) has raised after the node of ds_unfin was built
C27_Witness ==
    /\ conState = "raised"
    /\ Len(nodes) = 2
    /\ nodes[1].resource_id = "ds_orphan"
    /\ nodes[2].resource_id = "ds_unfin"
    /\ nodes[1].out_fields = "sA"
    /\ nodes[1].in_fields = None

\* record r with its entries i and j exchanged
Swap(r, i, j) ==
    [h \in 1..Len(r) |-> IF h = i THEN r[j] ELSE IF h = j THEN r[i] ELSE r[h]]

\* C28: when two entries of a record resolve to the same field, one by id
\* and one by display name, the outcome is that of the record without the
\* earlier entry (whose value raises nothing, castable or not), a returned
\* row holds the casted value of the later entry in the field's column,
\* and the record with the two entries exchanged yields the casted value
\* of the other entry there
C28_LaterKeyWins ==
    brOut.state = "done" =>
        \A i, j \in 1..Len(brRecord) :
            (/\ i < j
             /\ ~Unknown(brSchema, brRecord[i][1])
             /\ ~Unknown(brSchema, brRecord[j][1])
             /\ Target(brSchema, brRecord[i][1]) = Target(brSchema, brRecord[j][1])
             /\ \A h \in (j + 1)..Len(brRecord) :
                    Unknown(brSchema, brRecord[h][1])
                    \/ Target(brSchema, brRecord[h][1]) # Target(brSchema, brRecord[j][1])) =>
                LET f == Target(brSchema, brRecord[j][1])
                    rest == InputArray(brSelf, Without(brRecord, i))
                    swapped == InputArray(brSelf, Swap(brRecord, i, j))
                IN  /\ brOut.err = rest.err
                    /\ brOut.row = rest.row
                    /\ brOut.err = "none" =>
                            brOut.row[Pos(brSchema, f)]
                                = CastValue(Schemas[brSchema][f], brRecord[j][2])
                    /\ swapped.err = "none" =>
                            swapped.row[Pos(brSchema, f)]
                                = CastValue(Schemas[brSchema][f], brRecord[i][2])

\* over sA field f1 is supplied as f1 = "sx" and then as y = "s1": the row
\* holds "s1", and the record in the other order yields "sx"
C28_Witness ==
    /\ Returned
    /\ brSchema = "sA"
    /\ brRecord = << << "f1", "sx" >>, << "y", "s1" >> >>
    /\ brOut.row = << None, "s1" >>
    /\ InputArray(brSelf, Swap(brRecord, 1, 2)).row = << None, "sx" >>

====
